---- MODULE Spec2Model ----
(***************************************************************************)
(* Model of the P2P block-exchange peer of TP2 (src/TP2/tp2_tarcisio.py).  *)
(* Every peer is one process: a seeder loads its file and serves; a        *)
(* leecher starts its server, acquires the metadata from its neighbours,   *)
(* starts one download worker per neighbour, polls the owned set,          *)
(* rebuilds the file, checks its digest and returns.  Threads interleave   *)
(* at the granularity of their reads and writes of the shared attributes   *)
(* (blocos, tenho, the metadata fields) and of the frames they exchange.   *)
(* A provider session builds a METADATA_REPLY from the five attributes as  *)
(* they are at one moment; the five assignments of obter_metadata are      *)
(* separate steps.  A connection attempt to a peer whose process is not    *)
(* running is refused; a pending read may fail at any time (timeout or     *)
(* closed connection).  No KeyboardInterrupt is delivered to any peer.     *)
(***************************************************************************)
EXTENDS Integers, Sequences, FiniteSets, TLC

\* ------------------------------------------------------------- bounds
MaxTam == 3          \* largest size in bytes of the file of seeder S
BlocoSeeder == 2     \* --blocksize given to the seeders
MaxCarga == 2        \* longest payload of a frame
MaxN == 2            \* largest buffer size N of a trial
MaxThreads == 3      \* most producer and consumer threads of a trial
MaxM == 2            \* largest M of a trial

\* ---------------------------------------------------------- constants
NoneInt == -1        \* Python None in an integer attribute
BlocoPadrao == 1024  \* default of --blocksize, used by the leechers
TamHeader == 4       \* bytes of the length header of a frame
NoneItem == 0        \* Python None in a buffer slot or as an item

Seeders == {"S", "X"}
Leechers == {"L1", "L2"}
\* an address served by another implementation of the protocol
Externos == {"E"}
Peers == Seeders \cup Leechers \cup Externos
NoneStr == "None"
NoneHash == << >>

VARIABLES
  vizinhos,    \* self.vizinhos of every peer (static)
  ativos,      \* the peers that take part in the run (static)
  arquivo,     \* content of the file named by --file, per seeder (static)
  proc,        \* process state: "off", "up", "exited", "crashed", "fatal"
  meta,        \* nome_arquivo, tamanho_arquivo, tamanho_bloco, num_blocos, sha256_original
  blocos,      \* self.blocos: index -> bytes
  tenho,       \* self.tenho
  cli,         \* main thread of a leecher (cliente / obter_metadata / reconstruir_arquivo)
  worker,      \* worker_baixar threads, one per neighbour, with their connection and
               \* the header variable of the session that serves it
  saida,       \* bytes written to arquivo_saida
  resultado,   \* outcome of the digest check: "nenhum", "Verified", "Corrupt"
  baixados,    \* history: completed downloads per index
  contatados,  \* history: neighbours obter_metadata tried, in order, with the outcome
  respostas,   \* history: METADATA_REPLY records each provider sent
  codec,       \* one connection seen by enviar_frame and receber_frame
  trial        \* one run_trial of the producer-consumer program

\* the state of the peers
peers == <<vizinhos, ativos, arquivo, proc, meta, blocos, tenho, cli, worker,
           saida, resultado, baixados, contatados, respostas>>

vars == <<vizinhos, ativos, arquivo, proc, meta, blocos, tenho, cli, worker,
          saida, resultado, baixados, contatados, respostas, codec, trial>>

\* ------------------------------------------------------ pure helpers
Min(S) == CHOOSE x \in S : \A y \in S : x <= y

\* hashlib.sha256 idealised as collision free: the digest determines the content.
Sha256(bytes) == <<Len(bytes)>> \o bytes

\* a block count that ignores the partial last block
NumBlocosPorBaixo(tam, bloco) == tam \div bloco

\* (tamanho_arquivo + tamanho_bloco - 1) // tamanho_bloco
NumBlocos(tam, bloco) == (tam + bloco - 1) \div bloco

\* f.read(tamanho_bloco) at block i of a file
LerBloco(bytes, bloco, i) ==
  SubSeq(bytes, i * bloco + 1, IF (i + 1) * bloco < Len(bytes) THEN (i + 1) * bloco ELSE Len(bytes))

\* the file a seeder is started with: os.path.basename and the bytes
Conteudo(f, n) ==
  [nome |-> IF f = "F" THEN "fileA.bin" ELSE "fileB.bin",
   bytes |-> IF f = "F" THEN [i \in 1..n |-> i] ELSE [i \in 1..(n + 1) |-> 10 + i]]

MaxBlocos == NumBlocos(MaxTam + 1, BlocoSeeder)

MetaVazio(bloco) ==
  [nome_arquivo |-> NoneStr, tamanho_arquivo |-> NoneInt, tamanho_bloco |-> bloco,
   num_blocos |-> NoneInt, sha256_original |-> NoneHash]

\* the dictionary built at the METADATA branch of tratar_conexao
RespostaMetadata(m) ==
  [type |-> "METADATA_REPLY", filename |-> m.nome_arquivo, filesize |-> m.tamanho_arquivo,
   blocksize |-> m.tamanho_bloco, num_blocks |-> m.num_blocos, sha256 |-> m.sha256_original]

\* the BLOCK header built at the REQUEST branch of tratar_conexao
HeaderBloco(idx, dados) == [type |-> "BLOCK", block_index |-> idx, block_len |-> Len(dados)]

\* a store that appends to the bytes it already holds for idx
GuardarBlocoAcumula(b, idx, dados) ==
  IF idx \in DOMAIN b THEN (idx :> (b[idx] \o dados)) @@ b ELSE (idx :> dados) @@ b

\* self.blocos[idx] = dados
GuardarBloco(b, idx, dados) == (idx :> dados) @@ b

\* self.tenho.add(idx)
MarcarTenho(t, idx) == t \cup {idx}

\* faltam = [i for i in range(num_blocos) if i not in tenho]
Faltam(t, num) == {i \in 0..(num - 1) : i \notin t}

\* ------------------------------------------------------------- Init
Cenarios == {"cadeia", "dupla", "mista", "isolado", "externo"}

VizinhosDe(c) ==
  CASE c = "cadeia" ->
         [p \in Peers |-> CASE p = "L1" -> <<"L2", "S">> [] p = "L2" -> <<"S">> [] OTHER -> << >>]
    [] c = "dupla" ->
         [p \in Peers |-> CASE p = "L1" -> <<"S", "X">> [] OTHER -> << >>]
    [] c = "mista" ->
         [p \in Peers |-> CASE p = "L1" -> <<"L2">> [] p = "L2" -> <<"S", "X">> [] OTHER -> << >>]
    [] c = "externo" ->
         [p \in Peers |-> CASE p = "L2" -> <<"E">> [] OTHER -> << >>]
    [] OTHER -> [p \in Peers |-> CASE p = "L1" -> <<"L2">> [] OTHER -> << >>]

Participam(c) ==
  CASE c = "cadeia" -> {"S", "L1", "L2"}
    [] c = "dupla" -> {"S", "X", "L1"}
    [] c = "mista" -> {"S", "X", "L1", "L2"}
    [] c = "externo" -> {"E", "L2"}
    [] OTHER -> {"L1", "L2"}

CliInicial == [pc |-> "off", i |-> 1, req |-> "nenhum", resp |-> RespostaMetadata(MetaVazio(0)), pos |-> 0]

\* no header built yet by the session that serves a connection
SemHeader == [type |-> "nenhum"]

WorkerInicial == [pc |-> "idle", idx |-> 0, srv |-> "ocioso", hdr |-> SemHeader, frames |-> << >>]

\* threads of run_trial: producers, consumers and the main thread
Produtores(Np) == {<<"P", i>> : i \in 1..Np}
Consumidores(Nc) == {<<"C", i>> : i \in 1..Nc}
Principal == <<"M", 0>>

\* run_trial(N, Np, Nc, M) after start_event.set(): SharedBuffer(N) with its
\* semaphores and lock, the two counters, every thread at the top of its
\* loop, the main thread joining the producers; postos and tirados are the
\* items in the order of the puts and gets, cheios the slots put and not
\* yet got
TrialInicial(N, Np, Nc, M) ==
  [size |-> N, Np |-> Np, Nc |-> Nc, M |-> M,
   buf |-> [i \in 0..(N - 1) |-> NoneItem], in_idx |-> 0, out_idx |-> 0, count |-> 0,
   empty |-> N, full |-> 0, mutex |-> "livre",
   produced_total |-> 0, consumed_total |-> 0,
   th |-> [t \in Produtores(Np) \cup Consumidores(Nc) \cup {Principal} |->
             [pc |-> IF t = Principal THEN "join_prod" ELSE "check", val |-> 0]],
   postos |-> << >>, tirados |-> << >>, cheios |-> {}]

\* a connection on which the payloads of the list are to be sent: the bytes
\* in flight, the local variables of receber_frame and what it returned
CodecInicial(cargas) ==
  [aEnviar |-> cargas, enviados |-> << >>, fluxo |-> << >>, fechado |-> FALSE,
   pc |-> "header", tam |-> 0, dados |-> << >>, recebidos |-> << >>]

\* the peers of deployment c before any process is started
InitPeers(c, n, x) ==
    /\ vizinhos = VizinhosDe(c)
    /\ ativos = Participam(c)
    /\ arquivo = [s \in Seeders |-> IF s = "S" THEN Conteudo("F", n) ELSE Conteudo(x, n)]
    /\ proc = [p \in Peers |-> "off"]
    /\ meta = [p \in Peers |-> MetaVazio(IF p \in Seeders THEN BlocoSeeder ELSE BlocoPadrao)]
    /\ blocos = [p \in Peers |-> << >>]
    /\ tenho = [p \in Peers |-> {}]
    /\ cli = [p \in Leechers |-> CliInicial]
    /\ worker = [p \in Leechers |-> [k \in 1..Len(VizinhosDe(c)[p]) |-> WorkerInicial]]
    /\ saida = [p \in Leechers |-> << >>]
    /\ resultado = [p \in Leechers |-> "nenhum"]
    /\ baixados = [p \in Leechers |-> [i \in 0..(MaxBlocos - 1) |-> 0]]
    /\ contatados = [p \in Leechers |-> << >>]
    /\ respostas = [p \in Peers |-> {}]

Init ==
  \E c \in Cenarios, n \in 0..MaxTam, x \in {"F", "G"} :
    /\ (c = "cadeia") => (x = "F" /\ n \in {0, MaxTam})
    /\ (c = "mista") => (x = "G" /\ n = 1)
    /\ (c = "isolado") => (x = "F" /\ n = 0)
    /\ (c = "externo") => (x = "G" /\ n = 0)
    /\ InitPeers(c, n, x)
    /\ codec = CodecInicial(<< >>)
    /\ trial = TrialInicial(1, 1, 1, 1)

\* ------------------------------------------------- process start-up
\* preparar_seeder: metadata, digest and the blocks of the file
MetaSeeder(arq, bloco) ==
  [nome_arquivo |-> arq.nome, tamanho_arquivo |-> Len(arq.bytes), tamanho_bloco |-> bloco,
   num_blocos |-> NumBlocos(Len(arq.bytes), bloco), sha256_original |-> Sha256(arq.bytes)]

BlocosSeeder(arq, bloco) ==
  [i \in 0..(NumBlocos(Len(arq.bytes), bloco) - 1) |-> LerBloco(arq.bytes, bloco, i)]

\* iniciar of a seeder: preparar_seeder, then the server thread
IniciarSeeder(p) ==
  /\ p \in Seeders \cap ativos
  /\ proc[p] = "off"
  /\ proc' = [proc EXCEPT ![p] = "up"]
  /\ meta' = [meta EXCEPT ![p] = MetaSeeder(arquivo[p], meta[p].tamanho_bloco)]
  /\ blocos' = [blocos EXCEPT ![p] = BlocosSeeder(arquivo[p], meta[p].tamanho_bloco)]
  /\ tenho' = [tenho EXCEPT ![p] = DOMAIN BlocosSeeder(arquivo[p], meta[p].tamanho_bloco)]
  /\ UNCHANGED <<vizinhos, ativos, arquivo, cli, worker, saida, resultado, baixados,
                 contatados, respostas, codec, trial>>

\* iniciar of a leecher: the server thread, then cliente()
IniciarLeecher(p) ==
  /\ p \in Leechers \cap ativos
  /\ proc[p] = "off"
  /\ proc' = [proc EXCEPT ![p] = "up"]
  /\ cli' = [cli EXCEPT ![p].pc = "meta"]
  /\ UNCHANGED <<vizinhos, ativos, arquivo, meta, blocos, tenho, worker, saida, resultado,
                 baixados, contatados, respostas, codec, trial>>

\* the other implementation is started: it knows the metadata of the file
\* with the bytes of G and has no block of it yet
IniciarExterno(p) ==
  /\ p \in Externos \cap ativos
  /\ proc[p] = "off"
  /\ proc' = [proc EXCEPT ![p] = "up"]
  /\ meta' = [meta EXCEPT ![p] = MetaSeeder(arquivo["X"], BlocoSeeder)]
  /\ UNCHANGED <<vizinhos, ativos, arquivo, blocos, tenho, cli, worker, saida, resultado,
                 baixados, contatados, respostas, codec, trial>>

\* ---------------------------------------------------- obter_metadata
\* an iteration that walks the neighbour list from its end
VizinhoDaVezInvertido(p) == vizinhos[p][Len(vizinhos[p]) + 1 - cli[p].i]

\* for viz in self.vizinhos: the neighbour of the current iteration
VizinhoDaVez(p) == vizinhos[p][cli[p].i]

\* socket.create_connection to the next neighbour and the METADATA request
ObterMetadataConecta(p) ==
  /\ p \in Leechers /\ proc[p] = "up"
  /\ cli[p].pc = "meta"
  /\ cli[p].i <= Len(vizinhos[p])
  /\ IF proc[VizinhoDaVez(p)] = "up"
     THEN /\ cli' = [cli EXCEPT ![p].pc = "espera", ![p].req = "pendente"]
          /\ contatados' = [contatados EXCEPT ![p] = Append(@, [viz |-> VizinhoDaVez(p), res |-> "pendente"])]
     ELSE /\ cli' = [cli EXCEPT ![p].i = @ + 1]
          /\ contatados' = [contatados EXCEPT ![p] = Append(@, [viz |-> VizinhoDaVez(p), res |-> "falhou"])]
  /\ UNCHANGED <<vizinhos, ativos, arquivo, proc, meta, blocos, tenho, worker, saida,
                 resultado, baixados, respostas, codec, trial>>

\* tratar_conexao of the neighbour, METADATA branch
TratarMetadata(p) ==
  /\ p \in Leechers /\ proc[p] = "up"
  /\ cli[p].pc = "espera" /\ cli[p].req = "pendente"
  /\ LET v == VizinhoDaVez(p) IN
       /\ proc[v] = "up"
       /\ cli' = [cli EXCEPT ![p].req = "respondido", ![p].resp = RespostaMetadata(meta[v])]
       /\ respostas' = [respostas EXCEPT ![v] = @ \cup {RespostaMetadata(meta[v])}]
  /\ UNCHANGED <<vizinhos, ativos, arquivo, proc, meta, blocos, tenho, worker, saida,
                 resultado, baixados, contatados, codec, trial>>

\* receber_frame raises (timeout, connection closed): except -> continue
ObterMetadataErro(p) ==
  /\ p \in Leechers /\ proc[p] = "up"
  /\ cli[p].pc = "espera" /\ cli[p].req = "pendente"
  /\ cli' = [cli EXCEPT ![p].pc = "meta", ![p].req = "nenhum", ![p].i = @ + 1]
  /\ contatados' = [contatados EXCEPT ![p][Len(contatados[p])].res = "falhou"]
  /\ UNCHANGED <<vizinhos, ativos, arquivo, proc, meta, blocos, tenho, worker, saida,
                 resultado, baixados, respostas, codec, trial>>

\* the reply is read and decoded; the five assignments follow one by one
ObterMetadataRecebe(p) ==
  /\ p \in Leechers /\ proc[p] = "up"
  /\ cli[p].pc = "espera" /\ cli[p].req = "respondido"
  /\ cli' = [cli EXCEPT ![p].pc = "adota", ![p].pos = 1]
  /\ contatados' = [contatados EXCEPT ![p][Len(contatados[p])].res = "respondeu"]
  /\ UNCHANGED <<vizinhos, ativos, arquivo, proc, meta, blocos, tenho, worker, saida,
                 resultado, baixados, respostas, codec, trial>>

\* the pos-th of the assignments self.<field> = resp[...]
Atribuir(m, resp, pos) ==
  CASE pos = 1 -> [m EXCEPT !.nome_arquivo = resp.filename]
    [] pos = 2 -> [m EXCEPT !.tamanho_arquivo = resp.filesize]
    [] pos = 3 -> [m EXCEPT !.tamanho_bloco = resp.blocksize]
    [] pos = 4 -> [m EXCEPT !.num_blocos = resp.num_blocks]
    [] OTHER -> [m EXCEPT !.sha256_original = resp.sha256]

ObterMetadataAtribui(p) ==
  /\ p \in Leechers /\ proc[p] = "up"
  /\ cli[p].pc = "adota"
  /\ meta' = [meta EXCEPT ![p] = Atribuir(@, cli[p].resp, cli[p].pos)]
  /\ IF cli[p].pos < 5
     THEN cli' = [cli EXCEPT ![p].pos = @ + 1]
     ELSE cli' = [cli EXCEPT ![p].pc = "workers", ![p].req = "nenhum", ![p].pos = 0]
  /\ UNCHANGED <<vizinhos, ativos, arquivo, proc, blocos, tenho, worker, saida, resultado,
                 baixados, contatados, respostas, codec, trial>>

\* no neighbour answered: logging.error and exit()
\* an acquisition that goes on to the download after a failed pass
ObterMetadataSegue(p) ==
  /\ p \in Leechers /\ proc[p] = "up"
  /\ cli[p].pc = "meta"
  /\ cli[p].i > Len(vizinhos[p])
  /\ cli' = [cli EXCEPT ![p].pc = "workers"]
  /\ UNCHANGED <<vizinhos, ativos, arquivo, proc, meta, blocos, tenho, worker, saida,
                 resultado, baixados, contatados, respostas, codec, trial>>

\* the for loop ended without return: logging.error(...); exit()
ObterMetadataFatal(p) ==
  /\ p \in Leechers /\ proc[p] = "up"
  /\ cli[p].pc = "meta"
  /\ cli[p].i > Len(vizinhos[p])
  /\ cli' = [cli EXCEPT ![p].pc = "fatal"]
  /\ proc' = [proc EXCEPT ![p] = "fatal"]
  /\ UNCHANGED <<vizinhos, ativos, arquivo, meta, blocos, tenho, worker, saida, resultado,
                 baixados, contatados, respostas, codec, trial>>

\* ----------------------------------------------------------- cliente
\* one worker thread per neighbour
CriarWorkers(p) ==
  /\ p \in Leechers /\ proc[p] = "up"
  /\ cli[p].pc = "workers"
  /\ cli' = [cli EXCEPT ![p].pc = "monitor"]
  /\ worker' = [worker EXCEPT ![p] = [k \in DOMAIN @ |-> [@[k] EXCEPT !.pc = "loop"]]]
  /\ UNCHANGED <<vizinhos, ativos, arquivo, proc, meta, blocos, tenho, saida, resultado,
                 baixados, contatados, respostas, codec, trial>>

\* while len(self.tenho) < self.num_blocos: an int compared with None raises
\* TypeError and the main thread dies; a pass that only sleeps changes nothing.
Monitor(p) ==
  /\ p \in Leechers /\ proc[p] = "up"
  /\ cli[p].pc = "monitor"
  /\ IF meta[p].num_blocos = NoneInt
     THEN /\ cli' = [cli EXCEPT ![p].pc = "crash"]
          /\ proc' = [proc EXCEPT ![p] = "crashed"]
          /\ UNCHANGED saida
     ELSE /\ Cardinality(tenho[p]) >= meta[p].num_blocos
          /\ cli' = [cli EXCEPT ![p].pc = "reconstroi", ![p].pos = 0]
          /\ saida' = [saida EXCEPT ![p] = << >>]
          /\ UNCHANGED proc
  /\ UNCHANGED <<vizinhos, ativos, arquivo, meta, blocos, tenho, worker, resultado,
                 baixados, contatados, respostas, codec, trial>>

\* a reconstruction that writes the blocks from the last to the first
ReconstruirEscreveInvertido(p) ==
  /\ p \in Leechers /\ proc[p] = "up"
  /\ cli[p].pc = "reconstroi"
  /\ cli[p].pos < meta[p].num_blocos
  /\ saida' = [saida EXCEPT ![p] = @ \o blocos[p][meta[p].num_blocos - 1 - cli[p].pos]]
  /\ cli' = [cli EXCEPT ![p].pos = @ + 1]
  /\ UNCHANGED <<vizinhos, ativos, arquivo, proc, meta, blocos, tenho, worker, resultado,
                 baixados, contatados, respostas, codec, trial>>

\* reconstruir_arquivo: f.write(self.blocos[i]) for the next i
ReconstruirEscreve(p) ==
  /\ p \in Leechers /\ proc[p] = "up"
  /\ cli[p].pc = "reconstroi"
  /\ cli[p].pos < meta[p].num_blocos
  /\ saida' = [saida EXCEPT ![p] = @ \o blocos[p][cli[p].pos]]
  /\ cli' = [cli EXCEPT ![p].pos = @ + 1]
  /\ UNCHANGED <<vizinhos, ativos, arquivo, proc, meta, blocos, tenho, worker, resultado,
                 baixados, contatados, respostas, codec, trial>>

\* the digest of the written file against sha256_original
Verificar(bytes, sha) == IF Sha256(bytes) = sha THEN "Verified" ELSE "Corrupt"

ReconstruirVerifica(p) ==
  /\ p \in Leechers /\ proc[p] = "up"
  /\ cli[p].pc = "reconstroi"
  /\ cli[p].pos >= meta[p].num_blocos
  /\ resultado' = [resultado EXCEPT ![p] = Verificar(saida[p], meta[p].sha256_original)]
  /\ cli' = [cli EXCEPT ![p].pc = "retorna"]
  /\ UNCHANGED <<vizinhos, ativos, arquivo, proc, meta, blocos, tenho, worker, saida,
                 baixados, contatados, respostas, codec, trial>>

\* cliente() and iniciar() return: the main thread ends and, every other
\* thread being a daemon, so does the process
EstadoAoRetornar == "exited"

Retornar(p) ==
  /\ p \in Leechers /\ proc[p] = "up"
  /\ cli[p].pc = "retorna"
  /\ cli' = [cli EXCEPT ![p].pc = "fim"]
  /\ proc' = [proc EXCEPT ![p] = EstadoAoRetornar]
  /\ UNCHANGED <<vizinhos, ativos, arquivo, meta, blocos, tenho, worker, saida, resultado,
                 baixados, contatados, respostas, codec, trial>>

\* ----------------------------------------------------- worker_baixar
Pares == {pk \in Leechers \X {1, 2} : pk[2] \in DOMAIN vizinhos[pk[1]]}

\* while len(self.tenho) < self.num_blocos
WorkerLoop(p, k) ==
  /\ proc[p] = "up"
  /\ worker[p][k].pc = "loop"
  /\ worker' = [worker EXCEPT ![p][k].pc =
                  IF meta[p].num_blocos = NoneInt THEN "morto"
                  ELSE IF Cardinality(tenho[p]) < meta[p].num_blocos THEN "select"
                  ELSE "fim"]
  /\ UNCHANGED <<vizinhos, ativos, arquivo, proc, meta, blocos, tenho, cli, saida,
                 resultado, baixados, contatados, respostas, codec, trial>>

\* idx = faltam[0]
Escolher(faltam) == Min(faltam)

\* faltam, idx, create_connection and the REQUEST frame
WorkerSelect(p, k) ==
  /\ proc[p] = "up"
  /\ worker[p][k].pc = "select"
  /\ LET faltam == Faltam(tenho[p], meta[p].num_blocos) IN
       IF faltam = {}
       THEN worker' = [worker EXCEPT ![p][k].pc = "fim"]
       ELSE IF proc[vizinhos[p][k]] = "up"
       THEN worker' = [worker EXCEPT ![p][k] =
                         [pc |-> "header", idx |-> Escolher(faltam), srv |-> "req", hdr |-> SemHeader, frames |-> << >>]]
       ELSE worker' = [worker EXCEPT ![p][k] =
                         [pc |-> "sleep", idx |-> Escolher(faltam), srv |-> "ocioso", hdr |-> SemHeader, frames |-> << >>]]
  /\ UNCHANGED <<vizinhos, ativos, arquivo, proc, meta, blocos, tenho, cli, saida,
                 resultado, baixados, contatados, respostas, codec, trial>>

\* tratar_conexao of the neighbour, REQUEST branch: the header frame, or
\* nothing at all for an index it does not have
TratarRequest(p, k) ==
  /\ proc[p] = "up" /\ proc[vizinhos[p][k]] = "up"
  /\ vizinhos[p][k] \notin Externos
  /\ worker[p][k].srv = "req"
  /\ LET v == vizinhos[p][k]
         idx == worker[p][k].idx
     IN IF idx \in tenho[v]
        THEN worker' = [worker EXCEPT ![p][k].srv = "dados",
                          ![p][k].hdr = HeaderBloco(idx, blocos[v][idx]),
                          ![p][k].frames = Append(@, [json |-> HeaderBloco(idx, blocos[v][idx])])]
        ELSE worker' = [worker EXCEPT ![p][k].srv = "ocioso"]
  /\ UNCHANGED <<vizinhos, ativos, arquivo, proc, meta, blocos, tenho, cli, saida,
                 resultado, baixados, contatados, respostas, codec, trial>>

\* a session that hands its block over: the provider no longer owns it
TratarRequestDadosEntrega(p, k) ==
  /\ proc[p] = "up" /\ proc[vizinhos[p][k]] = "up"
  /\ worker[p][k].srv = "dados"
  /\ worker' = [worker EXCEPT ![p][k].srv = "ocioso",
                  ![p][k].frames = Append(@, [raw |-> blocos[vizinhos[p][k]][worker[p][k].idx]])]
  /\ tenho' = [tenho EXCEPT ![vizinhos[p][k]] = @ \ {worker[p][k].idx}]
  /\ UNCHANGED <<vizinhos, ativos, arquivo, proc, meta, blocos, cli, saida,
                 resultado, baixados, contatados, respostas, codec, trial>>

\* tratar_conexao, REQUEST branch: the raw frame with the block
TratarRequestDados(p, k) ==
  /\ proc[p] = "up" /\ proc[vizinhos[p][k]] = "up"
  /\ worker[p][k].srv = "dados"
  /\ worker' = [worker EXCEPT ![p][k].srv = "ocioso",
                  ![p][k].frames = Append(@, [raw |-> blocos[vizinhos[p][k]][worker[p][k].idx]])]
  /\ UNCHANGED <<vizinhos, ativos, arquivo, proc, meta, blocos, tenho, cli, saida,
                 resultado, baixados, contatados, respostas, codec, trial>>

\* the other implementation answers a REQUEST for a block it does not have
\* with one ERROR frame
ExternoResponde(p, k) ==
  /\ proc[p] = "up" /\ proc[vizinhos[p][k]] = "up"
  /\ vizinhos[p][k] \in Externos
  /\ worker[p][k].srv = "req"
  /\ worker' = [worker EXCEPT ![p][k].srv = "ocioso",
                  ![p][k].frames = Append(@, [json |-> [type |-> "ERROR"]])]
  /\ UNCHANGED <<vizinhos, ativos, arquivo, proc, meta, blocos, tenho, cli, saida,
                 resultado, baixados, contatados, respostas, codec, trial>>

\* a session that kills the whole provider when its handler fails
SessaoFalhaDerruba(p, k) ==
  /\ proc[p] = "up" /\ proc[vizinhos[p][k]] = "up"
  /\ vizinhos[p][k] \notin Externos
  /\ worker[p][k].srv \in {"req", "dados"}
  /\ worker' = [worker EXCEPT ![p][k].srv = "erro", ![p][k].hdr = SemHeader]
  /\ proc' = [proc EXCEPT ![vizinhos[p][k]] = "crashed"]
  /\ UNCHANGED <<vizinhos, ativos, arquivo, meta, blocos, tenho, cli, saida,
                 resultado, baixados, contatados, respostas, codec, trial>>

\* tratar_conexao: receber_frame, json.loads or enviar_frame raises inside
\* the handler; except: pass, finally: conn.close()
SessaoFalha(p, k) ==
  /\ proc[p] = "up" /\ proc[vizinhos[p][k]] = "up"
  /\ vizinhos[p][k] \notin Externos
  /\ worker[p][k].srv \in {"req", "dados"}
  /\ worker' = [worker EXCEPT ![p][k].srv = "erro", ![p][k].hdr = SemHeader]
  /\ UNCHANGED <<vizinhos, ativos, arquivo, proc, meta, blocos, tenho, cli, saida,
                 resultado, baixados, contatados, respostas, codec, trial>>

\* header = json.loads(receber_frame(conn).decode())
WorkerHeader(p, k) ==
  /\ proc[p] = "up"
  /\ worker[p][k].pc = "header"
  /\ worker[p][k].frames # << >>
  /\ IF Head(worker[p][k].frames).json.type = "BLOCK"
     THEN worker' = [worker EXCEPT ![p][k].pc = "dados", ![p][k].frames = Tail(@)]
     ELSE worker' = [worker EXCEPT ![p][k].pc = "loop", ![p][k].frames = << >>,
                       ![p][k].srv = "ocioso", ![p][k].hdr = SemHeader]
  /\ UNCHANGED <<vizinhos, ativos, arquivo, proc, meta, blocos, tenho, cli, saida,
                 resultado, baixados, contatados, respostas, codec, trial>>

\* a worker that marks the index owned before it stores the payload
WorkerDadosMarcaAntes(p, k) ==
  /\ proc[p] = "up"
  /\ worker[p][k].pc = "dados"
  /\ worker[p][k].frames # << >>
  /\ tenho' = [tenho EXCEPT ![p] = MarcarTenho(@, worker[p][k].idx)]
  /\ worker' = [worker EXCEPT ![p][k].pc = "add", ![p][k].frames = Tail(@)]
  /\ UNCHANGED <<vizinhos, ativos, arquivo, proc, meta, blocos, cli, saida, resultado,
                 baixados, contatados, respostas, codec, trial>>

\* dados = receber_frame(conn); self.blocos[idx] = dados
WorkerDados(p, k) ==
  /\ proc[p] = "up"
  /\ worker[p][k].pc = "dados"
  /\ worker[p][k].frames # << >>
  /\ blocos' = [blocos EXCEPT ![p] = GuardarBloco(@, worker[p][k].idx, Head(worker[p][k].frames).raw)]
  /\ worker' = [worker EXCEPT ![p][k].pc = "add", ![p][k].frames = Tail(@)]
  /\ UNCHANGED <<vizinhos, ativos, arquivo, proc, meta, tenho, cli, saida, resultado,
                 baixados, contatados, respostas, codec, trial>>

\* self.tenho.add(idx); conn.close()
WorkerAdd(p, k) ==
  /\ proc[p] = "up"
  /\ worker[p][k].pc = "add"
  /\ tenho' = [tenho EXCEPT ![p] = MarcarTenho(@, worker[p][k].idx)]
  /\ baixados' = [baixados EXCEPT ![p][worker[p][k].idx] = @ + 1]
  /\ worker' = [worker EXCEPT ![p][k].pc = "loop", ![p][k].srv = "ocioso",
                  ![p][k].hdr = SemHeader, ![p][k].frames = << >>]
  /\ UNCHANGED <<vizinhos, ativos, arquivo, proc, meta, blocos, cli, saida, resultado,
                 contatados, respostas, codec, trial>>

\* receber_frame raises (socket timeout, connection closed): except -> sleep
WorkerFalha(p, k) ==
  /\ proc[p] = "up"
  /\ worker[p][k].pc \in {"header", "dados"}
  /\ worker[p][k].frames = << >>
  /\ worker' = [worker EXCEPT ![p][k].pc = "sleep", ![p][k].srv = "ocioso", ![p][k].hdr = SemHeader]
  /\ UNCHANGED <<vizinhos, ativos, arquivo, proc, meta, blocos, tenho, cli, saida,
                 resultado, baixados, contatados, respostas, codec, trial>>

\* time.sleep(0.2) is over
WorkerAcorda(p, k) ==
  /\ proc[p] = "up"
  /\ worker[p][k].pc = "sleep"
  /\ worker' = [worker EXCEPT ![p][k].pc = "loop"]
  /\ UNCHANGED <<vizinhos, ativos, arquivo, proc, meta, blocos, tenho, cli, saida,
                 resultado, baixados, contatados, respostas, codec, trial>>

\* ------------------------------------------------------------- Next
Next ==
  \/ \E p \in Peers : IniciarSeeder(p)
  \/ \E p \in Peers : IniciarLeecher(p)
  \/ \E p \in Peers : IniciarExterno(p)
  \/ \E p \in Leechers : ObterMetadataConecta(p)
  \/ \E p \in Leechers : TratarMetadata(p)
  \/ \E p \in Leechers : ObterMetadataErro(p)
  \/ \E p \in Leechers : ObterMetadataRecebe(p)
  \/ \E p \in Leechers : ObterMetadataAtribui(p)
  \/ \E p \in Leechers : ObterMetadataFatal(p)
  \/ \E p \in Leechers : CriarWorkers(p)
  \/ \E p \in Leechers : Monitor(p)
  \/ \E p \in Leechers : ReconstruirEscreve(p)
  \/ \E p \in Leechers : ReconstruirVerifica(p)
  \/ \E p \in Leechers : Retornar(p)
  \/ \E pk \in Pares : WorkerLoop(pk[1], pk[2])
  \/ \E pk \in Pares : WorkerSelect(pk[1], pk[2])
  \/ \E pk \in Pares : TratarRequest(pk[1], pk[2])
  \/ \E pk \in Pares : TratarRequestDados(pk[1], pk[2])
  \/ \E pk \in Pares : ExternoResponde(pk[1], pk[2])
  \/ \E pk \in Pares : SessaoFalha(pk[1], pk[2])
  \/ \E pk \in Pares : WorkerHeader(pk[1], pk[2])
  \/ \E pk \in Pares : WorkerDados(pk[1], pk[2])
  \/ \E pk \in Pares : WorkerAdd(pk[1], pk[2])
  \/ \E pk \in Pares : WorkerFalha(pk[1], pk[2])
  \/ \E pk \in Pares : WorkerAcorda(pk[1], pk[2])

Spec == Init /\ [][Next]_vars

\* every thread that can take a step eventually takes one
FairSpec == Spec /\ WF_vars(Next)

\* ------------------------------------------- enviar_frame, receber_frame
\* struct.pack('!I', n): four bytes, most significant first
Pack(n) ==
  <<(n \div 16777216) % 256, (n \div 65536) % 256, (n \div 256) % 256, n % 256>>

\* struct.unpack('!I', h) of exactly four bytes
Unpack(h) == h[1] * 16777216 + h[2] * 65536 + h[3] * 256 + h[4]

\* the first n elements of a sequence, and the rest
Prefixo(s, n) == SubSeq(s, 1, n)
Resto(s, n) == SubSeq(s, n + 1, Len(s))

\* byte strings of at most MaxCarga bytes
Bytes == {0, 1}
Cargas == UNION {[1..n -> Bytes] : n \in 0..MaxCarga}

\* enviar_frame(conn, payload): conn.sendall(tamanho + payload)
EnviarFrame ==
  /\ codec.aEnviar # << >> /\ ~codec.fechado
  /\ LET payload == Head(codec.aEnviar) IN
       codec' = [codec EXCEPT !.aEnviar = Tail(@),
                              !.enviados = Append(@, payload),
                              !.fluxo = @ \o Pack(Len(payload)) \o payload]
  /\ UNCHANGED <<peers, trial>>

\* the sender closes the connection after its last frame
FecharConexao ==
  /\ codec.aEnviar = << >> /\ codec.enviados # << >> /\ ~codec.fechado
  /\ codec' = [codec EXCEPT !.fechado = TRUE]
  /\ UNCHANGED <<peers, trial>>

\* conn.recv(n) returns between 1 and n of the bytes in flight
Recv(n) == 1..(IF n < Len(codec.fluxo) THEN n ELSE Len(codec.fluxo))

\* header = conn.recv(4); (tam,) = struct.unpack('!I', header): a header
\* of fewer than four bytes makes unpack raise struct.error
ReceberHeader ==
  /\ codec.pc = "header" /\ codec.fluxo # << >>
  /\ \E n \in Recv(TamHeader) :
       IF n = TamHeader
       THEN codec' = [codec EXCEPT !.fluxo = Resto(@, n), !.pc = "corpo",
                                   !.tam = Unpack(Prefixo(codec.fluxo, n)),
                                   !.dados = << >>]
       ELSE codec' = [codec EXCEPT !.fluxo = Resto(@, n), !.pc = "struct.error"]
  /\ UNCHANGED <<peers, trial>>

\* parte = conn.recv(tam - len(dados)); dados += parte
ReceberCorpo ==
  /\ codec.pc = "corpo" /\ Len(codec.dados) < codec.tam
  /\ codec.fluxo # << >>
  /\ \E n \in Recv(codec.tam - Len(codec.dados)) :
       codec' = [codec EXCEPT !.fluxo = Resto(@, n),
                              !.dados = @ \o Prefixo(codec.fluxo, n)]
  /\ UNCHANGED <<peers, trial>>

\* the while loop is over: return dados
ReceberRetorna ==
  /\ codec.pc = "corpo" /\ Len(codec.dados) >= codec.tam
  /\ codec' = [codec EXCEPT !.recebidos = Append(@, codec.dados), !.pc = "header",
                             !.tam = 0, !.dados = << >>]
  /\ UNCHANGED <<peers, trial>>

\* recv returns b'' on a closed connection: raise ConnectionError
ReceberFechado ==
  /\ codec.pc \in {"header", "corpo"} /\ codec.fluxo = << >> /\ codec.fechado
  /\ codec.pc = "corpo" => Len(codec.dados) < codec.tam
  /\ codec' = [codec EXCEPT !.pc = "ConnectionError"]
  /\ UNCHANGED <<peers, trial>>

InitFrame ==
  /\ InitPeers("isolado", 0, "F")
  /\ \E b1 \in Cargas, b2 \in Cargas : codec = CodecInicial(<<b1, b2>>)
  /\ trial = TrialInicial(1, 1, 1, 1)

NextFrame ==
  \/ EnviarFrame
  \/ FecharConexao
  \/ ReceberHeader
  \/ ReceberCorpo
  \/ ReceberRetorna
  \/ ReceberFechado

SpecFrame == InitFrame /\ [][NextFrame]_vars

\* ------------------------------------------------- run_trial, SharedBuffer
\* producer_thread_fn: with produced_lock: break if produced_total >= M,
\* else produced_total += 1; the value produced is numbered by the counter
ProdutorCheck(t) ==
  /\ t \in Produtores(trial.Np)
  /\ trial.th[t].pc = "check"
  /\ IF trial.produced_total >= trial.M
     THEN trial' = [trial EXCEPT !.th[t].pc = "done"]
     ELSE trial' = [trial EXCEPT !.produced_total = @ + 1,
                                 !.th[t] = [pc |-> "put_empty", val |-> trial.produced_total + 1]]
  /\ UNCHANGED <<peers, codec>>

\* a put that does not wait for a free slot
PutSemEspera(t) ==
  /\ t \in DOMAIN trial.th
  /\ trial.th[t].pc = "put_empty"
  /\ trial' = [trial EXCEPT !.th[t].pc = "put_mutex"]
  /\ UNCHANGED <<peers, codec>>

\* put: self.empty.acquire()
PutEmpty(t) ==
  /\ t \in DOMAIN trial.th
  /\ trial.th[t].pc = "put_empty"
  /\ trial.empty > 0
  /\ trial' = [trial EXCEPT !.empty = @ - 1, !.th[t].pc = "put_mutex"]
  /\ UNCHANGED <<peers, codec>>

\* put: with self.mutex (the lock is taken)
PutMutex(t) ==
  /\ t \in DOMAIN trial.th
  /\ trial.th[t].pc = "put_mutex"
  /\ trial.mutex = "livre"
  /\ trial' = [trial EXCEPT !.mutex = t, !.th[t].pc = "put_cs"]
  /\ UNCHANGED <<peers, codec>>

\* the item the thread puts: its value, or None for the main thread
ItemDe(t) == IF t = Principal THEN NoneItem ELSE trial.th[t].val

\* put: buf[in_idx] = item; in_idx = (in_idx + 1) % size; count += 1; and
\* the lock is released
PutCs(t) ==
  /\ t \in DOMAIN trial.th
  /\ trial.th[t].pc = "put_cs"
  /\ trial' = [trial EXCEPT !.buf[trial.in_idx] = ItemDe(t),
                             !.in_idx = (@ + 1) % trial.size,
                             !.count = @ + 1,
                             !.mutex = "livre",
                             !.postos = Append(@, ItemDe(t)),
                             !.cheios = @ \cup {trial.in_idx},
                             !.th[t].pc = "put_full"]
  /\ UNCHANGED <<peers, codec>>

\* put: self.full.release(), and back to the caller
PutFull(t) ==
  /\ t \in DOMAIN trial.th
  /\ trial.th[t].pc = "put_full"
  /\ trial' = [trial EXCEPT !.full = @ + 1,
                             !.th[t] = IF t = Principal
                                       THEN [pc |-> "sentinela", val |-> @.val + 1]
                                       ELSE [pc |-> "check", val |-> @.val]]
  /\ UNCHANGED <<peers, codec>>

\* consumer_thread_fn: with consumed_lock: break if consumed_total >= M
ConsumidorCheck(t) ==
  /\ t \in Consumidores(trial.Nc)
  /\ trial.th[t].pc = "check"
  /\ trial' = [trial EXCEPT !.th[t].pc =
                  IF trial.consumed_total >= trial.M THEN "done" ELSE "get_full"]
  /\ UNCHANGED <<peers, codec>>

\* get: self.full.acquire()
GetFull(t) ==
  /\ t \in Consumidores(trial.Nc)
  /\ trial.th[t].pc = "get_full"
  /\ trial.full > 0
  /\ trial' = [trial EXCEPT !.full = @ - 1, !.th[t].pc = "get_mutex"]
  /\ UNCHANGED <<peers, codec>>

\* get: with self.mutex (the lock is taken)
GetMutex(t) ==
  /\ t \in Consumidores(trial.Nc)
  /\ trial.th[t].pc = "get_mutex"
  /\ trial.mutex = "livre"
  /\ trial' = [trial EXCEPT !.mutex = t, !.th[t].pc = "get_cs"]
  /\ UNCHANGED <<peers, codec>>

\* get: item = buf[out_idx]; buf[out_idx] = None; out_idx = (out_idx + 1)
\* % size; count -= 1; and the lock is released
GetCs(t) ==
  /\ t \in Consumidores(trial.Nc)
  /\ trial.th[t].pc = "get_cs"
  /\ trial' = [trial EXCEPT !.buf[trial.out_idx] = NoneItem,
                             !.out_idx = (@ + 1) % trial.size,
                             !.count = @ - 1,
                             !.mutex = "livre",
                             !.tirados = Append(@, trial.buf[trial.out_idx]),
                             !.cheios = @ \ {trial.out_idx},
                             !.th[t] = [pc |-> "get_empty", val |-> trial.buf[trial.out_idx]]]
  /\ UNCHANGED <<peers, codec>>

\* get: self.empty.release(); return item
GetEmpty(t) ==
  /\ t \in Consumidores(trial.Nc)
  /\ trial.th[t].pc = "get_empty"
  /\ trial' = [trial EXCEPT !.empty = @ + 1, !.th[t].pc = "teste"]
  /\ UNCHANGED <<peers, codec>>

\* if item is None: break; else consumed_total += 1 under consumed_lock and
\* break if cur >= M
ConsumidorTeste(t) ==
  /\ t \in Consumidores(trial.Nc)
  /\ trial.th[t].pc = "teste"
  /\ IF trial.th[t].val = NoneItem
     THEN trial' = [trial EXCEPT !.th[t].pc = "done"]
     ELSE trial' = [trial EXCEPT !.consumed_total = @ + 1,
                                 !.th[t].pc = IF trial.consumed_total + 1 >= trial.M
                                              THEN "done" ELSE "check"]
  /\ UNCHANGED <<peers, codec>>

\* for p in producers: p.join()
JoinProdutores ==
  /\ trial.th[Principal].pc = "join_prod"
  /\ \A t \in Produtores(trial.Np) : trial.th[t].pc = "done"
  /\ trial' = [trial EXCEPT !.th[Principal] = [pc |-> "sentinela", val |-> 0]]
  /\ UNCHANGED <<peers, codec>>

\* for _ in range(Nc): buf.put(None)
Sentinela ==
  /\ trial.th[Principal].pc = "sentinela"
  /\ trial' = [trial EXCEPT !.th[Principal].pc =
                  IF trial.th[Principal].val < trial.Nc THEN "put_empty" ELSE "join_cons"]
  /\ UNCHANGED <<peers, codec>>

\* for c in consumers: c.join(); run_trial returns
JoinConsumidores ==
  /\ trial.th[Principal].pc = "join_cons"
  /\ \A t \in Consumidores(trial.Nc) : trial.th[t].pc = "done"
  /\ trial' = [trial EXCEPT !.th[Principal].pc = "fim"]
  /\ UNCHANGED <<peers, codec>>

InitTrial ==
  /\ InitPeers("isolado", 0, "F")
  /\ codec = CodecInicial(<< >>)
  /\ \E N \in 1..MaxN, Np \in 1..(MaxThreads - 1), Nc \in 1..(MaxThreads - 1),
        M \in 1..MaxM :
       /\ Np + Nc <= MaxThreads
       /\ trial = TrialInicial(N, Np, Nc, M)

\* the threads a trial can have
Threads ==
  Produtores(MaxThreads - 1) \cup Consumidores(MaxThreads - 1) \cup {Principal}

NextTrial ==
  \/ \E t \in Threads : ProdutorCheck(t)
  \/ \E t \in Threads : PutEmpty(t)
  \/ \E t \in Threads : PutMutex(t)
  \/ \E t \in Threads : PutCs(t)
  \/ \E t \in Threads : PutFull(t)
  \/ \E t \in Threads : ConsumidorCheck(t)
  \/ \E t \in Threads : GetFull(t)
  \/ \E t \in Threads : GetMutex(t)
  \/ \E t \in Threads : GetCs(t)
  \/ \E t \in Threads : GetEmpty(t)
  \/ \E t \in Threads : ConsumidorTeste(t)
  \/ JoinProdutores
  \/ Sentinela
  \/ JoinConsumidores

SpecTrial == InitTrial /\ [][NextTrial]_vars

\* =================================================================
\* Properties
\* =================================================================
\* a worker has selected an index and its request is not yet finished
Perseguindo(p, k) == worker[p][k].pc \in {"header", "dados", "add"}

\* obter_metadata has returned
MetadataObtido(p) == cli[p].pc \in {"workers", "monitor", "reconstroi", "retorna", "fim", "crash"}

\* the metadata of a peer is known: a seeder's from its start, a leecher's
\* once obter_metadata has returned
MetaConhecido(q) == q \in Seeders \/ MetadataObtido(q)

\* every seeder of the run holds the file of seeder S
MesmoArquivo == \A s \in Seeders \cap ativos : arquivo[s] = arquivo["S"]

\* C1: no two workers of a leecher pursue the same block index at the same
\* time.
C1_SemPerseguicaoDuplicada ==
  \A p \in Leechers : \A k1, k2 \in DOMAIN worker[p] :
    (k1 # k2 /\ Perseguindo(p, k1) /\ Perseguindo(p, k2))
      => worker[p][k1].idx # worker[p][k2].idx

\* C2: when the store of a leecher is complete, every index was inserted by
\* exactly one completed download.
C2_CadaIndiceUmaVez ==
  \A p \in Leechers :
    (MetadataObtido(p) /\ meta[p].num_blocos # NoneInt
       /\ tenho[p] = 0..(meta[p].num_blocos - 1))
      => \A i \in tenho[p] : baixados[p][i] = 1

\* C3: in every state, an index is owned exactly when the payload map has an
\* entry for it.
C3_TenhoSseBlocos ==
  \A p \in Peers : tenho[p] = DOMAIN blocos[p]

\* C4: once an index is owned, no step changes its stored payload or removes
\* it from the owned set.
C4_BlocoImutavel ==
  [][\A p \in Peers : \A i \in tenho[p] :
       i \in tenho'[p] /\ blocos'[p][i] = blocos[p][i]]_vars

\* C5: a worker that inserts a pair (index, payload) the store already holds
\* leaves the stored bytes and the owned set as they were: neither of the two
\* statements of the insertion changes them.
C5_InsercaoIdempotente ==
  [][\A pk \in Pares :
       LET p == pk[1]
           k == pk[2]
           w == worker[p][k]
       IN /\ (/\ w.pc = "dados" /\ worker'[p][k].pc = "add"
              /\ w.idx \in tenho[p]
              /\ blocos[p][w.idx] = Head(w.frames).raw)
               => (blocos'[p] = blocos[p] /\ tenho'[p] = tenho[p])
          /\ (/\ w.pc = "add" /\ worker'[p][k].pc = "loop"
              /\ w.idx \in tenho[p])
               => (blocos'[p] = blocos[p] /\ tenho'[p] = tenho[p])]_vars

\* C5 witness: an index was inserted by two completed downloads carrying the
\* same bytes.
C5_Witness ==
  /\ MesmoArquivo
  /\ \E p \in Leechers : \E i \in DOMAIN baixados[p] : baixados[p][i] >= 2

\* C6: when every seeder holds the same file and a leecher has finished, its
\* blocks equal the seeder's, its output equals the file and the verifier
\* result is Verified.
C6_ReconstrucaoFimAFim ==
  \A p \in Leechers :
    (MesmoArquivo /\ cli[p].pc \in {"retorna", "fim"})
      => /\ \A i \in 0..(meta[p].num_blocos - 1) :
              blocos[p][i] = BlocosSeeder(arquivo["S"], BlocoSeeder)[i]
         /\ saida[p] = arquivo["S"].bytes
         /\ resultado[p] = "Verified"

\* C7: once obter_metadata has returned, the metadata of the leecher equals
\* the metadata of a seeder of the run.
C7_MetadataDoSeeder ==
  \A p \in Leechers :
    MetadataObtido(p)
      => meta[p] \in {MetaSeeder(arquivo[s], BlocoSeeder) : s \in Seeders \cap ativos}

\* C8: a provider has sent a METADATA_REPLY only if its own metadata is known.
C8_ReplySoComMetadata ==
  \A q \in Peers : (respostas[q] # {}) => MetaConhecido(q)

\* C9: a leecher that has reconstructed the file still runs its provider.
C9_LeecherContinuaServindo ==
  \A p \in Leechers : (cli[p].pc \in {"retorna", "fim"}) => proc[p] = "up"

\* C10: obter_metadata tries the neighbours in list order, one at a time; a
\* neighbour is tried only after every earlier one failed; after the first
\* reply no further neighbour is tried and that reply is what is adopted.
C10_OrdemDosVizinhos ==
  \A p \in Leechers :
    LET c == contatados[p]
        n == Len(c)
    IN /\ n <= Len(vizinhos[p])
       /\ \A j \in 1..n : c[j].viz = vizinhos[p][j]
       /\ \A j \in 1..(n - 1) : c[j].res = "falhou"
       /\ (n > 0 /\ c[n].res = "pendente") => (cli[p].pc = "espera" /\ cli[p].i = n)
       /\ (n > 0 /\ c[n].res = "respondeu")
            => /\ cli[p].pc \notin {"meta", "espera", "fatal"}
               /\ cli[p].resp \in respostas[c[n].viz]
               /\ MetadataObtido(p) => RespostaMetadata(meta[p]) = cli[p].resp

\* C10 witness: the first neighbour failed, the second replied, and its reply
\* was adopted.
C10_Witness ==
  \E p \in Leechers :
    /\ Len(contatados[p]) = 2
    /\ contatados[p][1].res = "falhou"
    /\ contatados[p][2].res = "respondeu"
    /\ cli[p].pc = "monitor"

\* ------------------------------------------------------------------ C11
\* every neighbour of the list was tried and none answered
PassagemFalhou(p) ==
  /\ Len(contatados[p]) = Len(vizinhos[p])
  /\ \A i \in 1..Len(vizinhos[p]) :
       contatados[p][i] = [viz |-> vizinhos[p][i], res |-> "falhou"]

\* C11: a leecher whose neighbours all fail to answer METADATA (the empty
\* list included) ends fatally after exactly one pass over the list, each
\* neighbour tried once and in order; no worker was started, nothing was
\* stored or written; and a leecher gets past the acquisition only with a
\* neighbour that answered.
C11_MetadataIndisponivel ==
  \A p \in Leechers :
    /\ (cli[p].pc = "fatal") =>
         /\ proc[p] = "fatal"
         /\ PassagemFalhou(p)
         /\ \A k \in DOMAIN worker[p] : worker[p][k] = WorkerInicial
         /\ saida[p] = << >> /\ resultado[p] = "nenhum"
         /\ tenho[p] = {} /\ blocos[p] = << >>
         /\ meta[p] = MetaVazio(BlocoPadrao)
    /\ (cli[p].pc \notin {"off", "meta", "espera", "fatal"}) =>
         /\ contatados[p] # << >>
         /\ contatados[p][Len(contatados[p])].res = "respondeu"
    /\ Len(contatados[p]) <= Len(vizinhos[p])

\* both cases at once: L2 with an empty list, L1 whose only neighbour is down
C11_Witness ==
  /\ cli["L2"].pc = "fatal" /\ vizinhos["L2"] = << >>
  /\ cli["L1"].pc = "fatal" /\ Len(vizinhos["L1"]) = 1

\* ------------------------------------------------------------------ C12
\* the raw frame the session has put on the connection, if any
FrameBruto(w) ==
  IF w.frames # << >> /\ "raw" \in DOMAIN w.frames[Len(w.frames)]
  THEN <<w.frames[Len(w.frames)].raw>> ELSE << >>

\* C12: a BLOCK header is sent only for an index the provider owns, names
\* the requested index, and the raw frame that follows it carries exactly
\* block_len bytes.
C12_BlockDoisFrames ==
  \A pk \in Pares :
    LET w == worker[pk[1]][pk[2]]
        v == vizinhos[pk[1]][pk[2]]
    IN (w.hdr.type = "BLOCK") =>
         /\ w.hdr.block_index = w.idx
         /\ w.idx \in tenho[v]
         /\ w.idx \in DOMAIN blocos[v]
         /\ \A i \in 1..Len(FrameBruto(w)) : Len(FrameBruto(w)[i]) = w.hdr.block_len

\* ------------------------------------------------------------------ C13
\* C13: once the session handler is done with a REQUEST it has read (it is
\* back at reading the next frame), the requester has a reply on the
\* connection: a BLOCK header or an ERROR.
C13_TodoPedidoRespondido ==
  \A pk \in Pares :
    LET w == worker[pk[1]][pk[2]] IN
      (w.pc = "header" /\ w.srv = "ocioso") => w.frames # << >>

\* ------------------------------------------------------------------ C14
\* the session that serves connection pk ends by an error in this step
SessaoTermina(pk) ==
  /\ worker[pk[1]][pk[2]].srv \in {"req", "dados"}
  /\ worker'[pk[1]][pk[2]].srv = "erro"

TentativaFalha(pk) ==
  /\ worker[pk[1]][pk[2]].pc \in {"header", "dados"}
  /\ worker'[pk[1]][pk[2]].pc \notin {"header", "dados", "add"}

\* C15: a download attempt that fails leaves the owned set and the block
\* store as they were and takes the worker to its backoff sleep, from which
\* it goes on with the next attempt.
C15_FalhaComEspera ==
  [][\A pk \in Pares :
       TentativaFalha(pk) =>
         /\ blocos' = blocos /\ tenho' = tenho
         /\ worker'[pk[1]][pk[2]].pc = "sleep"]_vars

\* ------------------------------------------------------------------ C16
\* states a process never leaves
Parados == {"exited", "fatal", "crashed"}

\* p knows the block count, misses a block, and no neighbour will ever
\* supply one: each is gone for good or is a peer that owns no block
SemFornecedor(p) ==
  /\ proc[p] = "up"
  /\ meta[p].num_blocos # NoneInt
  /\ Cardinality(tenho[p]) < meta[p].num_blocos
  /\ \A k \in DOMAIN vizinhos[p] :
       /\ proc[vizinhos[p][k]] \in Parados \/ vizinhos[p][k] \in Externos
       /\ worker[p][k].pc \in {"loop", "select", "sleep"}

\* p has given up: its process ended or all its workers returned
Desistiu(p) ==
  \/ proc[p] # "up"
  \/ \A k \in DOMAIN worker[p] : worker[p][k].pc \in {"fim", "morto"}

\* C16: a leecher that no neighbour can supply eventually stops retrying.
C16_ErroAposTentativas ==
  \A p \in Leechers : SemFornecedor(p) ~> Desistiu(p)

\* ------------------------------------------------------------------ C17
\* blocks 0 .. n-1 of a store, one after the other
RECURSIVE ConcatAte(_, _)
ConcatAte(b, n) == IF n = 0 THEN << >> ELSE ConcatAte(b, n - 1) \o b[n - 1]

\* the reconstruction of p has started
Reconstruindo(p) == cli[p].pc \in {"reconstroi", "retorna", "fim"}

\* C17: the reconstruction runs only with every index 0..num_blocos-1
\* owned; each write appends the block of the next index, starting at 0 and
\* ending at num_blocos-1; with blocks of one single file the output is
\* the concatenation of the stored blocks in index order.
C17_ReconstrucaoEmOrdem ==
  /\ [](\A p \in Leechers :
         Reconstruindo(p) =>
           /\ meta[p].num_blocos # NoneInt
           /\ tenho[p] = 0..(meta[p].num_blocos - 1)
           /\ cli[p].pos \in 0..meta[p].num_blocos
           /\ (cli[p].pc # "reconstroi") => (cli[p].pos = meta[p].num_blocos)
           /\ MesmoArquivo => (saida[p] = ConcatAte(blocos[p], cli[p].pos)))
  /\ [][\A p \in Leechers :
         /\ (saida'[p] # saida[p]) => (cli[p].pc = "reconstroi")
         /\ (cli[p].pc = "reconstroi" /\ cli'[p] # cli[p]) =>
              \/ /\ cli[p].pos < meta[p].num_blocos
                 /\ saida'[p] = saida[p] \o blocos[p][cli[p].pos]
                 /\ cli'[p].pos = cli[p].pos + 1
              \/ /\ cli[p].pos = meta[p].num_blocos
                 /\ saida'[p] = saida[p]
                 /\ cli'[p].pc = "retorna"]_vars

\* a leecher wrote a file of two blocks and is about to verify it
C17_Witness ==
  \E p \in Leechers :
    /\ cli[p].pc = "retorna"
    /\ meta[p].num_blocos = 2
    /\ Len(saida[p]) = MaxTam
    /\ blocos[p][0] # blocos[p][1]

\* ------------------------------------------------------------------ C18
\* the verdict is the comparison of the two digests
VereditoPeloDigest ==
  \A p \in Leechers :
    /\ resultado[p] \in {"nenhum", "Verified", "Corrupt"}
    /\ (resultado[p] = "Verified") => (Sha256(saida[p]) = meta[p].sha256_original)
    /\ (resultado[p] = "Corrupt") => (Sha256(saida[p]) # meta[p].sha256_original)
    /\ (resultado[p] # "nenhum") <=> (cli[p].pc \in {"retorna", "fim"})

\* the blocks of the file whose digest the metadata of p carries
Originais(p) ==
  {BlocosSeeder(arquivo[s], meta[s].tamanho_bloco) :
     s \in {t \in Seeders \cap ativos : Sha256(arquivo[t].bytes) = meta[p].sha256_original}}

\* the verdict given in this step is Corrupt if a stored block is not the
\* original one
BlocoDiferenteCorrupt(p) ==
  (resultado[p] = "nenhum" /\ resultado'[p] = "Verified") =>
    \E o \in Originais(p) : \A i \in 0..(meta[p].num_blocos - 1) : blocos[p][i] = o[i]

\* after Corrupt the store stays as it is and no REQUEST is sent
CorruptEncerra(p) ==
  (resultado[p] = "Corrupt") =>
    /\ blocos'[p] = blocos[p] /\ tenho'[p] = tenho[p]
    /\ \A k \in DOMAIN worker[p] :
         (worker'[p][k].pc = "header") => (worker[p][k].pc = "header")

\* C18: the verdict is Verified exactly when the digest of the written
\* output equals the metadata digest and Corrupt otherwise; a stored block
\* that differs from the original makes the verdict Corrupt; after Corrupt
\* no block is requested and the block store does not change.
C18_VerificadorFinal ==
  /\ []VereditoPeloDigest
  /\ [][\A p \in Leechers : BlocoDiferenteCorrupt(p) /\ CorruptEncerra(p)]_vars

\* ------------------------------------------------------------------ C19
\* C19: whatever the partial reads, receber_frame raises no error while the
\* stream holds the frames written by enviar_frame, and the payloads it
\* returns are, in order, exactly the payloads written.
C19_FrameRoundTrip ==
  /\ Len(codec.recebidos) <= Len(codec.enviados)
  /\ \A i \in 1..Len(codec.recebidos) : codec.recebidos[i] = codec.enviados[i]
  /\ codec.pc # "struct.error"
  /\ (codec.pc = "ConnectionError") =>
       (codec.fechado /\ codec.recebidos = codec.enviados)

\* ------------------------------------------------------------------ C20
\* total length of the blocks 0 .. n-1 of a store
RECURSIVE SomaTamanhos(_, _)
SomaTamanhos(b, n) == IF n = 0 THEN 0 ELSE SomaTamanhos(b, n - 1) + Len(b[n - 1])

\* C20: num_blocos of a seeder is the ceiling of tamanho_arquivo over
\* tamanho_bloco (10 for 10000 bytes in blocks of 1024); its store holds
\* exactly the indices 0..num_blocos-1, each block of tamanho_bloco bytes but
\* the last one, which has tamanho_arquivo - i*tamanho_bloco bytes; the
\* lengths add up to tamanho_arquivo.
C20_ContagemDeBlocos ==
  /\ NumBlocos(10000, BlocoPadrao) = 10
  /\ \A s \in Seeders :
       (proc[s] = "up") =>
         LET tam == meta[s].tamanho_arquivo
             b == meta[s].tamanho_bloco
             n == meta[s].num_blocos
         IN /\ tam = Len(arquivo[s].bytes)
            /\ n \in Nat /\ n * b >= tam /\ (n - 1) * b < tam
            /\ DOMAIN blocos[s] = 0..(n - 1) /\ tenho[s] = 0..(n - 1)
            /\ \A i \in 0..(n - 1) :
                 Len(blocos[s][i]) = IF i < n - 1 THEN b ELSE tam - i * b
            /\ SomaTamanhos(blocos[s], n) = tam
            /\ ConcatAte(blocos[s], n) = arquivo[s].bytes

\* a seeder whose file ends in a partial block
C20_Witness ==
  \E s \in Seeders :
    /\ proc[s] = "up"
    /\ meta[s].num_blocos >= 2
    /\ Len(blocos[s][meta[s].num_blocos - 1]) < meta[s].tamanho_bloco
    /\ Len(blocos[s][0]) = meta[s].tamanho_bloco

\* ------------------------------------------------------------------ C21
\* C21: a started seeder stays up and keeps, through every later step, the
\* owned set, the payloads and the metadata of its initial load; no seeder
\* is ever counted among the peers that asked for metadata or downloaded.
C21_SeederSoServe ==
  /\ [](\A s \in Seeders :
         /\ s \notin DOMAIN cli /\ s \notin DOMAIN worker /\ s \notin DOMAIN contatados
         /\ (proc[s] = "up") =>
              /\ meta[s] = MetaSeeder(arquivo[s], BlocoSeeder)
              /\ blocos[s] = BlocosSeeder(arquivo[s], BlocoSeeder)
              /\ tenho[s] = DOMAIN blocos[s])
  /\ [][\A s \in Seeders :
         (proc[s] = "up") =>
           /\ proc'[s] = "up"
           /\ tenho'[s] = tenho[s] /\ blocos'[s] = blocos[s] /\ meta'[s] = meta[s]]_vars

\* seeder S is up after a leecher whose only neighbour it is has fetched
\* the metadata and every block from it
C21_Witness ==
  /\ proc["S"] = "up" /\ respostas["S"] # {}
  /\ vizinhos["L2"] = <<"S">>
  /\ tenho["L2"] = tenho["S"] /\ Cardinality(tenho["S"]) = 2

\* ------------------------------------------------------------------ C25
\* C25: in every state every owned index of a peer has a payload and lies
\* in 0..num_blocos-1, so the payload a session is about to send and the
\* payload the reconstruction is about to write are in the store.
C25_TenhoTemBloco ==
  /\ \A p \in Peers :
       /\ tenho[p] \subseteq DOMAIN blocos[p]
       /\ (tenho[p] # {}) =>
            (meta[p].num_blocos # NoneInt /\ tenho[p] \subseteq 0..(meta[p].num_blocos - 1))
  /\ \A pk \in Pares :
       (worker[pk[1]][pk[2]].srv = "dados") =>
         (worker[pk[1]][pk[2]].idx \in DOMAIN blocos[vizinhos[pk[1]][pk[2]]])
  /\ \A p \in Leechers :
       (cli[p].pc = "reconstroi" /\ cli[p].pos < meta[p].num_blocos) =>
         (cli[p].pos \in DOMAIN blocos[p])

\* a leecher owns block 0 and is serving it to another leecher while one of
\* its workers has stored block 1 and not yet marked it owned
C25_Witness ==
  \E pk \in Pares, qj \in Pares :
    /\ vizinhos[qj[1]][qj[2]] = pk[1]
    /\ worker[qj[1]][qj[2]].srv = "dados"
    /\ worker[pk[1]][pk[2]].pc = "add"
    /\ worker[pk[1]][pk[2]].idx \notin tenho[pk[1]]
    /\ tenho[pk[1]] # {}

\* ------------------------------------------------------------------ C24
\* the owned set of p holds every index of the file
Completo(p) ==
  /\ meta[p].num_blocos # NoneInt
  /\ Cardinality(tenho[p]) >= meta[p].num_blocos

\* C24: from the moment the owned set of a leecher is complete no worker of
\* it executes self.blocos[idx] = dados and the block store keeps its value.
C24_StoreCongeladoAoCompletar ==
  [][\A p \in Leechers :
       Completo(p) =>
         /\ blocos'[p] = blocos[p]
         /\ \A k \in DOMAIN worker[p] :
              ~(worker[p][k].pc = "dados" /\ worker'[p][k].pc = "add")]_vars

\* ------------------------------------------------------------------ C23
\* a neighbour of p that owns every block, is up and has been serving
FornecedorCompleto(p) ==
  \E k \in DOMAIN vizinhos[p] :
    /\ vizinhos[p][k] \in Seeders
    /\ proc[vizinhos[p][k]] = "up"
    /\ respostas[vizinhos[p][k]] # {}

\* C23: a leecher with a reachable neighbour that owns every block goes on to
\* own all blocks and to reconstruct; in particular it never reaches a state
\* from which it cannot: its main thread dead with the file incomplete, or its
\* workers all returned with the file incomplete.
C23_DownloadConclui ==
  \A p \in Leechers :
    FornecedorCompleto(p) =>
      /\ proc[p] # "crashed"
      /\ (proc[p] = "up" /\ cli[p].pc = "monitor" /\ ~Completo(p)) =>
           \E k \in DOMAIN worker[p] : worker[p][k].pc # "morto"

\* ------------------------------------------------------------------ C22
\* C22: a trial never gets stuck: as long as run_trial has not returned,
\* some thread can take a step.
C22_TrialTermina ==
  (trial.th[Principal].pc = "fim") \/ ENABLED NextTrial

\* ------------------------------------------------------------------ C26
\* s is an initial segment of t
PrefixoDe(s, t) == Len(s) <= Len(t) /\ \A i \in 1..Len(s) : s[i] = t[i]

\* C26: the occupancy count stays within 0..size and is the number of
\* completed puts minus completed gets; exactly the slots put and not yet
\* got hold an item; a put writes only into a slot that is not occupied, a
\* get reads only an occupied slot; the items come out in the order they
\* went in, each once.
C26_BufferCircular ==
  /\ [](/\ trial.count \in 0..trial.size
        /\ trial.count = Len(trial.postos) - Len(trial.tirados)
        /\ Cardinality(trial.cheios) = trial.count
        /\ trial.in_idx = Len(trial.postos) % trial.size
        /\ trial.out_idx = Len(trial.tirados) % trial.size
        /\ \A i \in 0..(trial.size - 1) : (i \notin trial.cheios) => (trial.buf[i] = NoneItem)
        /\ PrefixoDe(trial.tirados, trial.postos)
        /\ \A i, j \in 1..Len(trial.postos) :
             (trial.postos[i] = trial.postos[j] /\ trial.postos[i] # NoneItem) => (i = j))
  /\ [][/\ (trial'.postos # trial.postos) =>
             /\ trial.in_idx \notin trial.cheios
             /\ trial'.buf[trial.in_idx] = trial'.postos[Len(trial'.postos)]
        /\ (trial'.tirados # trial.tirados) =>
             /\ trial.out_idx \in trial.cheios
             /\ trial'.tirados[Len(trial'.tirados)] = trial.buf[trial.out_idx]]_vars

\* a full buffer of two slots whose write index has wrapped around
C26_Witness ==
  /\ trial.size = 2 /\ trial.count = 2
  /\ Len(trial.postos) >= 3 /\ Len(trial.tirados) >= 1
  /\ \E t \in DOMAIN trial.th : trial.th[t].pc = "put_empty"

====
